---- MODULE Spec2Model ----
(***************************************************************************)
(* A model of the macOS back end of the global-hotkey manager              *)
(* (src/src/platform_impl/macos/mod.rs): the Registry of standard hotkeys, *)
(* the Media Key Set with its lazily installed event tap, the four mutexes *)
(* of GlobalHotKeyManager, the native objects the manager creates, and the *)
(* two native callbacks.  Caller threads execute register and unregister   *)
(* one lock acquisition or native call at a time.                          *)
(***************************************************************************)
EXTENDS Integers, Sequences, FiniteSets

(* ---------------- Option<T>: a sequence of length at most one ---------- *)

None == << >>

Some(x) == << x >>

is_some(o) == o # None

unwrap(o) == o[1]

(* ---------------- keys, modifiers, HotKey ------------------------------ *)

\* The Code values of the model, in a fixed order: the keys of the
\* key_to_scancode table, the five media keys, and F21 (neither).
CodeList ==
    << "KeyA", "KeyS", "KeyD", "KeyF", "KeyH",
       "KeyG", "KeyZ", "KeyX", "KeyC", "KeyV",
       "KeyB", "KeyQ", "KeyW", "KeyE", "KeyR",
       "KeyY", "KeyT", "Digit1", "Digit2", "Digit3",
       "Digit4", "Digit6", "Digit5", "Equal", "Digit9",
       "Digit7", "Minus", "Digit8", "Digit0", "BracketRight",
       "KeyO", "KeyU", "BracketLeft", "KeyI", "KeyP",
       "Enter", "KeyL", "KeyJ", "Quote", "KeyK",
       "Semicolon", "Backslash", "Comma", "Slash", "KeyN",
       "KeyM", "Period", "Tab", "Space", "Backquote",
       "Backspace", "Escape", "F17", "NumpadDecimal", "NumpadMultiply",
       "NumpadAdd", "NumLock", "AudioVolumeUp", "AudioVolumeDown", "AudioVolumeMute",
       "NumpadDivide", "NumpadEnter", "NumpadSubtract", "F18", "F19",
       "NumpadEqual", "Numpad0", "Numpad1", "Numpad2", "Numpad3",
       "Numpad4", "Numpad5", "Numpad6", "Numpad7", "F20",
       "Numpad8", "Numpad9", "F5", "F6", "F7",
       "F3", "F8", "F9", "F11", "F13",
       "F16", "F14", "F10", "F12", "F15",
       "Insert", "Home", "PageUp", "Delete", "F4",
       "End", "F2", "PageDown", "F1", "ArrowLeft",
       "ArrowRight", "ArrowDown", "ArrowUp", "CapsLock", "PrintScreen",
       "MediaPlayPause", "MediaTrackNext", "MediaTrackPrevious", "MediaFastForward", "MediaRewind",
       "F21" >>

Codes == {CodeList[i] : i \in 1..Len(CodeList)}

\* The keyboard_types modifiers the back end reads.
ModifierNames == {"SHIFT", "CONTROL", "ALT", "SUPER", "META"}

key_to_scancode(code) ==
    CASE
      code = "KeyA" -> Some(0) []
      code = "KeyS" -> Some(1) []
      code = "KeyD" -> Some(2) []
      code = "KeyF" -> Some(3) []
      code = "KeyH" -> Some(4) []
      code = "KeyG" -> Some(5) []
      code = "KeyZ" -> Some(6) []
      code = "KeyX" -> Some(7) []
      code = "KeyC" -> Some(8) []
      code = "KeyV" -> Some(9) []
      code = "KeyB" -> Some(11) []
      code = "KeyQ" -> Some(12) []
      code = "KeyW" -> Some(13) []
      code = "KeyE" -> Some(14) []
      code = "KeyR" -> Some(15) []
      code = "KeyY" -> Some(16) []
      code = "KeyT" -> Some(17) []
      code = "Digit1" -> Some(18) []
      code = "Digit2" -> Some(19) []
      code = "Digit3" -> Some(20) []
      code = "Digit4" -> Some(21) []
      code = "Digit6" -> Some(22) []
      code = "Digit5" -> Some(23) []
      code = "Equal" -> Some(24) []
      code = "Digit9" -> Some(25) []
      code = "Digit7" -> Some(26) []
      code = "Minus" -> Some(27) []
      code = "Digit8" -> Some(28) []
      code = "Digit0" -> Some(29) []
      code = "BracketRight" -> Some(30) []
      code = "KeyO" -> Some(31) []
      code = "KeyU" -> Some(32) []
      code = "BracketLeft" -> Some(33) []
      code = "KeyI" -> Some(34) []
      code = "KeyP" -> Some(35) []
      code = "Enter" -> Some(36) []
      code = "KeyL" -> Some(37) []
      code = "KeyJ" -> Some(38) []
      code = "Quote" -> Some(39) []
      code = "KeyK" -> Some(40) []
      code = "Semicolon" -> Some(41) []
      code = "Backslash" -> Some(42) []
      code = "Comma" -> Some(43) []
      code = "Slash" -> Some(44) []
      code = "KeyN" -> Some(45) []
      code = "KeyM" -> Some(46) []
      code = "Period" -> Some(47) []
      code = "Tab" -> Some(48) []
      code = "Space" -> Some(49) []
      code = "Backquote" -> Some(50) []
      code = "Backspace" -> Some(51) []
      code = "Escape" -> Some(53) []
      code = "F17" -> Some(64) []
      code = "NumpadDecimal" -> Some(65) []
      code = "NumpadMultiply" -> Some(67) []
      code = "NumpadAdd" -> Some(69) []
      code = "NumLock" -> Some(71) []
      code = "AudioVolumeUp" -> Some(72) []
      code = "AudioVolumeDown" -> Some(73) []
      code = "AudioVolumeMute" -> Some(74) []
      code = "NumpadDivide" -> Some(75) []
      code = "NumpadEnter" -> Some(76) []
      code = "NumpadSubtract" -> Some(78) []
      code = "F18" -> Some(79) []
      code = "F19" -> Some(80) []
      code = "NumpadEqual" -> Some(81) []
      code = "Numpad0" -> Some(82) []
      code = "Numpad1" -> Some(83) []
      code = "Numpad2" -> Some(84) []
      code = "Numpad3" -> Some(85) []
      code = "Numpad4" -> Some(86) []
      code = "Numpad5" -> Some(87) []
      code = "Numpad6" -> Some(88) []
      code = "Numpad7" -> Some(89) []
      code = "F20" -> Some(90) []
      code = "Numpad8" -> Some(91) []
      code = "Numpad9" -> Some(92) []
      code = "F5" -> Some(96) []
      code = "F6" -> Some(97) []
      code = "F7" -> Some(98) []
      code = "F3" -> Some(99) []
      code = "F8" -> Some(100) []
      code = "F9" -> Some(101) []
      code = "F11" -> Some(103) []
      code = "F13" -> Some(105) []
      code = "F16" -> Some(106) []
      code = "F14" -> Some(107) []
      code = "F10" -> Some(109) []
      code = "F12" -> Some(111) []
      code = "F15" -> Some(113) []
      code = "Insert" -> Some(114) []
      code = "Home" -> Some(115) []
      code = "PageUp" -> Some(116) []
      code = "Delete" -> Some(117) []
      code = "F4" -> Some(118) []
      code = "End" -> Some(119) []
      code = "F2" -> Some(120) []
      code = "PageDown" -> Some(121) []
      code = "F1" -> Some(122) []
      code = "ArrowLeft" -> Some(123) []
      code = "ArrowRight" -> Some(124) []
      code = "ArrowDown" -> Some(125) []
      code = "ArrowUp" -> Some(126) []
      code = "CapsLock" -> Some(57) []
      code = "PrintScreen" -> Some(70) []
      OTHER -> None

\* is_media_key with a sixth key, one that has a scan code.
is_media_key_with_arrow_up(code) ==
    code \in {"MediaPlayPause", "MediaTrackNext", "MediaTrackPrevious",
              "MediaFastForward", "MediaRewind", "ArrowUp"}

is_media_key(code) ==
    code \in {"MediaPlayPause", "MediaTrackNext", "MediaTrackPrevious",
              "MediaFastForward", "MediaRewind"}

ScanCodeKeys == {c \in Codes : is_some(key_to_scancode(c))}

\* The bit of one keyboard_types modifier.
ModifierBit(m) ==
    CASE m = "ALT" -> 1
      [] m = "CONTROL" -> 8
      [] m = "META" -> 64
      [] m = "SHIFT" -> 512
      [] m = "SUPER" -> 8192

RECURSIVE SumBits(_)
SumBits(mods) ==
    IF mods = {} THEN 0
    ELSE LET m == CHOOSE x \in mods : TRUE
         IN  ModifierBit(m) + SumBits(mods \ {m})

\* The position of each code in CodeList.
CodeIndex == [c \in Codes |-> CHOOSE i \in 1..Len(CodeList) : CodeList[i] = c]

CodeOrdinal(code) == CodeIndex[code]

\* HotKey::new: the value type (mods, key).
HotKeyNew(mods, key) == [mods |-> mods, key |-> key]

\* HotKey::id: derived deterministically from key + modifiers; the value
\* is below 2^30 and fits the u32 of the source.
HotKeyId(hotkey) == SumBits(hotkey.mods) * 65536 + CodeOrdinal(hotkey.key)

(* ---------------- native constants and translations -------------------- *)

noErr == 0

kEventHotKeyPressed == 5

kEventHotKeyReleased == 6

\* CGEventType::SystemDefined
SystemDefined == 14

\* CGEventType::KeyDown
KeyDown == 10

\* NSEventType::NSSystemDefined
NSSystemDefined == 14

\* A null native reference; live references are positive.
NullRef == 0

\* register, lines 89-101: the Carbon modifier mask of a modifier set.
NativeMods(mods) ==
      (IF "SHIFT" \in mods THEN 512 ELSE 0)
    + (IF mods \cap {"SUPER", "META"} # {} THEN 256 ELSE 0)
    + (IF "ALT" \in mods THEN 2048 ELSE 0)
    + (IF "CONTROL" \in mods THEN 4096 ELSE 0)

\* register, lines 106-116: the four-character code "htrs" folded into a
\* u32, res = (res << 8) + c; the four characters do not overflow it.
RECURSIVE FoldChars(_, _)
FoldChars(chars, res) ==
    IF chars = << >> THEN res
    ELSE FoldChars(Tail(chars), res * 256 + Head(chars))

Signature == FoldChars(<<104, 116, 114, 115>>, 0)

EventHotKeyID(hotkey) == [id |-> HotKeyId(hotkey), signature |-> Signature]

(* ---------------- the universes of the model ---------------------------- *)

Threads == {"t1", "t2"}

Locks == {"hotkeys", "media_hotkeys", "event_tap", "event_tap_source"}

\* The two hotkeys examples/iced.rs registers.
hotkey_1 == HotKeyNew({"CONTROL"}, "ArrowRight")

hotkey_2 == HotKeyNew({}, "ArrowUp")

media_1 == HotKeyNew({}, "MediaPlayPause")

media_2 == HotKeyNew({"META"}, "MediaTrackNext")

other_1 == HotKeyNew({}, "F21")

\* The hotkeys a single caller passes to register and unregister.
HotKeys == {hotkey_1, hotkey_2, media_1, media_2, other_1}

\* The hotkeys two concurrent callers pass.
ConcHotKeys == {hotkey_2, media_1}

\* Every hotkey of the standard path: a key with a scan code, any modifiers.
StandardHotKeys ==
    {HotKeyNew(m, k) : m \in SUBSET ModifierNames, k \in ScanCodeKeys}

(* ---------------- state ------------------------------------------------- *)

VARIABLES
    hotkeys,           \* the Registry: id -> [ptr, hotkey]
    media_hotkeys,     \* the Media Key Set
    event_tap,         \* Option<CFMachPortRef>
    event_tap_source,  \* Option<CFRunLoopSourceRef>
    lock,              \* the holder of each of the four mutexes, or "free"
    os_hotkeys,        \* live Carbon registrations: ref -> [code, mods, id]
    os_taps,           \* live event taps: ref -> [valid, enabled]
    os_sources,        \* live run-loop sources: ref -> [tap]
    os_runloop,        \* the sources attached to the main run loop
    pc,                \* each caller thread's position
    op,                \* the public operation a thread runs, or ran last
    hk,                \* its hotkey argument
    ret,               \* its result: "pending" while the call runs
    ptr,               \* its local native reference (hotkey_ref, tap, source)
    pre,               \* the manager and Carbon state when the call began
    native_log,        \* the native calls the call has made, in order
    lastCb,            \* the native callback invoked since the last call boundary
    batch,             \* the register_all, unregister_all or drop in progress
    os_handlers,       \* the Carbon event handlers installed
    strong_count       \* the strong count of the Arc around the Media Key Set

mgr == <<hotkeys, media_hotkeys, event_tap, event_tap_source>>

os == <<os_hotkeys, os_taps, os_sources, os_runloop>>

\* What the steps inside register and unregister leave alone: the
\* bookkeeping of the call, the operation that made the call, the installed
\* handler and, but for line 217, the strong count of the Media Key Set.
call == <<op, hk, pre, batch, os_handlers, strong_count>>

vars == <<hotkeys, media_hotkeys, event_tap, event_tap_source, lock,
          os_hotkeys, os_taps, os_sources, os_runloop,
          pc, op, hk, ret, ptr, pre, native_log, lastCb, batch, os_handlers,
          strong_count>>

Snapshot ==
    [hotkeys |-> hotkeys, media_hotkeys |-> media_hotkeys,
     event_tap |-> event_tap, event_tap_source |-> event_tap_source,
     os_hotkeys |-> os_hotkeys, os_taps |-> os_taps,
     os_sources |-> os_sources]

\* The map with no entry.
EmptyMap == [x \in {} |-> x]

NoCallback == [fn |-> "none", event |-> None, ret |-> None, sent |-> << >>,
               media_hotkeys |-> {}]

\* No register_all, unregister_all or drop has been called: `hotkeys` is the
\* slice, `next` the index of the element the loop calls next, `trace` the
\* calls that have returned, `ret` the result ("pending" while it runs).
NoBatch == [op |-> "none", hotkeys |-> << >>, next |-> 1, trace |-> << >>,
            ret |-> "none"]

\* The EventHandlerRef that InstallEventHandler stored at construction.
event_handler_ptr == 1

\* GlobalHotKeyManager::new, lines 49-85, having returned Ok: the handler
\* is installed and the four collections are empty.
Init ==
    /\ hotkeys = EmptyMap
    /\ media_hotkeys = {}
    /\ event_tap = None
    /\ event_tap_source = None
    /\ lock = [l \in Locks |-> "free"]
    /\ os_hotkeys = EmptyMap
    /\ os_taps = EmptyMap
    /\ os_sources = EmptyMap
    /\ os_runloop = {}
    /\ pc = [t \in Threads |-> "idle"]
    /\ op = [t \in Threads |-> "none"]
    /\ hk = [t \in Threads |-> other_1]
    /\ ret = [t \in Threads |-> "none"]
    /\ ptr = [t \in Threads |-> NullRef]
    /\ pre = [t \in Threads |->
                [hotkeys |-> EmptyMap, media_hotkeys |-> {},
                 event_tap |-> None, event_tap_source |-> None,
                 os_hotkeys |-> EmptyMap, os_taps |-> EmptyMap,
                 os_sources |-> EmptyMap]]
    /\ native_log = [t \in Threads |-> << >>]
    /\ lastCb = NoCallback
    /\ batch = NoBatch
    /\ os_handlers = {event_handler_ptr}
    /\ strong_count = 1

(* ---------------- helpers ----------------------------------------------- *)

\* f with key k mapped to v (BTreeMap::insert).
MapInsert(f, k, v) ==
    [x \in DOMAIN f \cup {k} |-> IF x = k THEN v ELSE f[x]]

\* f without key k (BTreeMap::remove, CFRelease of a live object).
MapRemove(f, k) == [x \in DOMAIN f \ {k} |-> f[x]]

\* The smallest positive reference outside `used`.
FreshRef(used) ==
    CHOOSE n \in 1..(Cardinality(used) + 1) :
        /\ n \notin used
        /\ \A m \in 1..(n - 1) : m \in used

\* The call goes on at position p.
Goto(t, p) == pc' = [pc EXCEPT ![t] = p] /\ UNCHANGED <<ret, lastCb>>

\* The call returns r to its caller; its local reference goes out of scope.
Return(t, r) ==
    /\ pc' = [pc EXCEPT ![t] = "idle"]
    /\ ret' = [ret EXCEPT ![t] = r]
    /\ lastCb' = NoCallback
    /\ ptr' = [ptr EXCEPT ![t] = NullRef]

Log(t, fn, ok) ==
    native_log' = [native_log EXCEPT ![t] = Append(@, [fn |-> fn, ok |-> ok])]

Acquire(l, t) == [lock EXCEPT ![l] = t]

(* ---------------- the native layer -------------------------------------- *)

\* The references a thread holds in a local while it is on the standard path.
LocalHotKeyRefs ==
    {ptr[t] : t \in {u \in Threads : pc[u] \in {"register_insert", "unregister_native"}}}

LocalTapRefs ==
    {ptr[t] : t \in {u \in Threads :
        pc[u] \in {"start_create_source", "start_attach",
                   "stop_invalidate", "stop_release_tap"}}}

LocalSourceRefs ==
    {ptr[t] : t \in {u \in Threads :
        pc[u] \in {"stop_remove_source", "stop_release_source"}}}

\* RegisterEventHotKey: Carbon rejects a (key code, modifiers) combination the
\* application has registered already; `granted` is Carbon's answer otherwise.
RegisterEventHotKey(scan_code, mods, hotkey_id, granted) ==
    IF \/ ~granted
       \/ \E r \in DOMAIN os_hotkeys :
            os_hotkeys[r].code = scan_code /\ os_hotkeys[r].mods = mods
    THEN [status |-> -9878, hotkey_ref |-> NullRef, os_hotkeys |-> os_hotkeys]
    ELSE LET r == FreshRef(DOMAIN os_hotkeys \cup LocalHotKeyRefs
                           \cup {hotkeys[i].ptr : i \in DOMAIN hotkeys})
         IN  [status |-> noErr, hotkey_ref |-> r,
              os_hotkeys |-> MapInsert(os_hotkeys, r,
                                [code |-> scan_code, mods |-> mods,
                                 id |-> hotkey_id.id,
                                 signature |-> hotkey_id.signature])]

\* UnregisterEventHotKey: fails on a reference that is not live, and when
\* Carbon refuses (`granted` false); the registration then stays.
UnregisterEventHotKey(hotkey_ref, granted) ==
    IF granted /\ hotkey_ref \in DOMAIN os_hotkeys
    THEN [status |-> noErr, os_hotkeys |-> MapRemove(os_hotkeys, hotkey_ref)]
    ELSE [status |-> -50, os_hotkeys |-> os_hotkeys]

\* CGEventTapCreate: a new enabled tap, or null when `granted` is false
\* (no permission to monitor input).
CGEventTapCreate(granted) ==
    IF granted
    THEN LET r == FreshRef(DOMAIN os_taps \cup LocalTapRefs
                           \cup {event_tap[i] : i \in DOMAIN event_tap})
         IN  [tap |-> r,
              os_taps |-> MapInsert(os_taps, r, [valid |-> TRUE, enabled |-> TRUE])]
    ELSE [tap |-> NullRef, os_taps |-> os_taps]

\* CFMachPortCreateRunLoopSource: a new source of the tap, or null.
CFMachPortCreateRunLoopSource(tap, granted) ==
    IF granted
    THEN LET r == FreshRef(DOMAIN os_sources \cup LocalSourceRefs \cup os_runloop
                           \cup {event_tap_source[i] : i \in DOMAIN event_tap_source})
         IN  [loop_source |-> r,
              os_sources |-> MapInsert(os_sources, r, [tap |-> tap])]
    ELSE [loop_source |-> NullRef, os_sources |-> os_sources]

\* CFMachPortInvalidate: the tap delivers no more events.
CFMachPortInvalidate(taps, tap) ==
    [r \in DOMAIN taps |->
        IF r = tap THEN [taps[r] EXCEPT !.valid = FALSE] ELSE taps[r]]

\* CGEventTapEnable(tap, true).
CGEventTapEnable(taps, tap) ==
    [r \in DOMAIN taps |->
        IF r = tap THEN [taps[r] EXCEPT !.enabled = TRUE] ELSE taps[r]]

\* CFRelease of the last reference: the object is gone.
CFRelease(objects, ref) == MapRemove(objects, ref)

\* The window server delivers events to the tap callback while a valid,
\* enabled tap has its source attached to the main run loop.
TapDelivers ==
    \E s \in os_runloop \cap DOMAIN os_sources :
        /\ os_sources[s].tap \in DOMAIN os_taps
        /\ os_taps[os_sources[s].tap].valid
        /\ os_taps[os_sources[s].tap].enabled

(* ---------------- register ---------------------------------------------- *)

\* The largest strong count the Arc around the Media Key Set reaches.
MaxStrong == 3

\* The calls in progress that may still clone the Arc (line 217).
Activating ==
    {u \in Threads : pc[u] # "idle" /\ op[u] = "register"
                                    /\ is_media_key(hk[u].key)}

\* Thread t enters register or unregister with its argument; a register
\* that may clone the Arc is entered while the count has room for it.
enter(t, operation, hotkey) ==
    /\ pc[t] = "idle"
    /\ (operation = "register" /\ is_media_key(hotkey.key))
          => strong_count + Cardinality(Activating) < MaxStrong
    /\ pc' = [pc EXCEPT ![t] = operation]
    /\ op' = [op EXCEPT ![t] = operation]
    /\ hk' = [hk EXCEPT ![t] = hotkey]
    /\ ret' = [ret EXCEPT ![t] = "pending"]
    /\ pre' = [pre EXCEPT ![t] = Snapshot]
    /\ native_log' = [native_log EXCEPT ![t] = << >>]
    /\ lastCb' = NoCallback
    /\ UNCHANGED <<mgr, os, lock, ptr, os_handlers, strong_count>>

\* A caller enters register(hotkey) directly.
register(t, hotkey) ==
    /\ batch.op = "none"
    /\ enter(t, "register", hotkey)
    /\ UNCHANGED batch

\* register_standard without the early return of lines 130-135: the
\* reference Carbon left unset is inserted all the same.
register_standard_ignoring_status(t, granted) ==
    /\ pc[t] = "register"
    /\ is_some(key_to_scancode(hk[t].key))
    /\ LET r == RegisterEventHotKey(unwrap(key_to_scancode(hk[t].key)),
                                    NativeMods(hk[t].mods),
                                    EventHotKeyID(hk[t]), granted)
       IN  /\ os_hotkeys' = r.os_hotkeys
           /\ Log(t, "RegisterEventHotKey", r.status = noErr)
           /\ ptr' = [ptr EXCEPT ![t] = r.hotkey_ref]
           /\ Goto(t, "register_insert")
    /\ UNCHANGED <<mgr, lock, os_taps, os_sources, os_runloop, call>>

\* Lines 103-138: the key has a scan code; RegisterEventHotKey, no lock held.
register_standard(t, granted) ==
    /\ pc[t] = "register"
    /\ is_some(key_to_scancode(hk[t].key))
    /\ LET r == RegisterEventHotKey(unwrap(key_to_scancode(hk[t].key)),
                                    NativeMods(hk[t].mods),
                                    EventHotKeyID(hk[t]), granted)
       IN  /\ os_hotkeys' = r.os_hotkeys
           /\ Log(t, "RegisterEventHotKey", r.status = noErr)
           /\ IF r.status # noErr
              THEN Return(t, "FailedToRegister")
              ELSE /\ ptr' = [ptr EXCEPT ![t] = r.hotkey_ref]
                   /\ Goto(t, "register_insert")
    /\ UNCHANGED <<mgr, lock, os_taps, os_sources, os_runloop, call>>

\* Lines 140-144: lock hotkeys, insert the wrapper, unlock, Ok.
register_insert(t) ==
    /\ pc[t] = "register_insert"
    /\ lock["hotkeys"] = "free"
    /\ hotkeys' = MapInsert(hotkeys, HotKeyId(hk[t]),
                            [ptr |-> ptr[t], hotkey |-> hk[t]])
    /\ Return(t, "Ok")
    /\ UNCHANGED <<media_hotkeys, event_tap, event_tap_source, lock, os, call,
                   native_log>>

\* register_media without the AlreadyRegistered return of lines 148-150.
register_media_no_duplicate_check(t) ==
    /\ pc[t] = "register"
    /\ ~is_some(key_to_scancode(hk[t].key))
    /\ is_media_key(hk[t].key)
    /\ lock["media_hotkeys"] = "free"
    /\ media_hotkeys' = media_hotkeys \cup {hk[t]}
    /\ Goto(t, "start_lock_event_tap")
    /\ UNCHANGED <<hotkeys, event_tap, event_tap_source, lock, os, ptr, call,
                   native_log>>

\* Lines 145-152: a media key; insert under the media_hotkeys lock.
register_media(t) ==
    /\ pc[t] = "register"
    /\ ~is_some(key_to_scancode(hk[t].key))
    /\ is_media_key(hk[t].key)
    /\ lock["media_hotkeys"] = "free"
    /\ IF hk[t] \in media_hotkeys
       THEN Return(t, "AlreadyRegistered") /\ UNCHANGED media_hotkeys
       ELSE /\ media_hotkeys' = media_hotkeys \cup {hk[t]}
            /\ Goto(t, "start_lock_event_tap")
            /\ UNCHANGED ptr
    /\ UNCHANGED <<hotkeys, event_tap, event_tap_source, lock, os, call,
                   native_log>>

\* Lines 153-158: neither a scan code nor a media key.
register_unknown(t) ==
    /\ pc[t] = "register"
    /\ ~is_some(key_to_scancode(hk[t].key))
    /\ ~is_media_key(hk[t].key)
    /\ Return(t, "FailedToRegister")
    /\ UNCHANGED <<mgr, os, lock, call, native_log>>

(* ---------------- start_watching_media_keys ----------------------------- *)

\* Line 202.
start_lock_event_tap(t) ==
    /\ pc[t] = "start_lock_event_tap"
    /\ lock["event_tap"] = "free"
    /\ lock' = Acquire("event_tap", t)
    /\ Goto(t, "start_lock_event_tap_source")
    /\ UNCHANGED <<mgr, os, ptr, call, native_log>>

\* start_watching_media_keys without the early return of lines 205-207.
start_lock_event_tap_source_always_creating(t) ==
    /\ pc[t] = "start_lock_event_tap_source"
    /\ lock["event_tap_source"] = "free"
    /\ lock' = Acquire("event_tap_source", t)
    /\ Goto(t, "start_create_tap")
    /\ UNCHANGED ptr
    /\ UNCHANGED <<mgr, os, call, native_log>>

\* Lines 203-207: the second lock, then the already-installed check.
start_lock_event_tap_source(t) ==
    /\ pc[t] = "start_lock_event_tap_source"
    /\ lock["event_tap_source"] = "free"
    /\ IF is_some(event_tap) \/ is_some(event_tap_source)
       THEN /\ lock' = [lock EXCEPT !["event_tap"] = "free"]
            /\ Return(t, "Ok")
       ELSE /\ lock' = Acquire("event_tap_source", t)
            /\ Goto(t, "start_create_tap")
            /\ UNCHANGED ptr
    /\ UNCHANGED <<mgr, os, call, native_log>>

\* Arc::clone followed by Arc::into_raw: one more strong reference, owned
\* by whoever holds the raw pointer.
Arc_into_raw(count) == count + 1

\* Lines 209-222: the clone of the Arc is handed to CGEventTapCreate as
\* user_info whatever the call returns; null fails the call.
start_create_tap(t, granted) ==
    /\ pc[t] = "start_create_tap"
    /\ strong_count' = Arc_into_raw(strong_count)
    /\ LET r == CGEventTapCreate(granted)
       IN  /\ os_taps' = r.os_taps
           /\ Log(t, "CGEventTapCreate", r.tap # NullRef)
           /\ IF r.tap = NullRef
              THEN /\ lock' = [lock EXCEPT !["event_tap"] = "free",
                                           !["event_tap_source"] = "free"]
                   /\ Return(t, "FailedToWatchMediaKeyEvent")
                   /\ UNCHANGED event_tap
              ELSE /\ event_tap' = Some(r.tap)
                   /\ ptr' = [ptr EXCEPT ![t] = r.tap]
                   /\ Goto(t, "start_create_source")
                   /\ UNCHANGED lock
    /\ UNCHANGED <<hotkeys, media_hotkeys, event_tap_source, os_hotkeys,
                   os_sources, os_runloop, op, hk, pre, batch, os_handlers>>

\* start_create_source without the cleanup of lines 226-229.
start_create_source_without_cleanup(t, granted) ==
    /\ pc[t] = "start_create_source"
    /\ LET r == CFMachPortCreateRunLoopSource(ptr[t], granted)
       IN  IF r.loop_source = NullRef
           THEN /\ Log(t, "CFMachPortCreateRunLoopSource", FALSE)
                /\ lock' = [lock EXCEPT !["event_tap"] = "free",
                                        !["event_tap_source"] = "free"]
                /\ Return(t, "FailedToWatchMediaKeyEvent")
                /\ UNCHANGED <<event_tap, event_tap_source, os_taps, os_sources>>
           ELSE /\ event_tap_source' = Some(r.loop_source)
                /\ os_sources' = r.os_sources
                /\ Log(t, "CFMachPortCreateRunLoopSource", TRUE)
                /\ Goto(t, "start_attach")
                /\ UNCHANGED <<event_tap, os_taps, lock, ptr>>
    /\ UNCHANGED <<hotkeys, media_hotkeys, os_hotkeys, os_runloop, call>>

\* Lines 224-233: CFMachPortCreateRunLoopSource; null releases the tap.
start_create_source(t, granted) ==
    /\ pc[t] = "start_create_source"
    /\ LET r == CFMachPortCreateRunLoopSource(ptr[t], granted)
       IN  IF r.loop_source = NullRef
           THEN /\ os_taps' = CFRelease(CFMachPortInvalidate(os_taps, ptr[t]), ptr[t])
                /\ event_tap' = None
                /\ native_log' = [native_log EXCEPT ![t] =
                      @ \o << [fn |-> "CFMachPortCreateRunLoopSource", ok |-> FALSE],
                              [fn |-> "CFMachPortInvalidate", ok |-> TRUE],
                              [fn |-> "CFRelease(tap)", ok |-> TRUE] >>]
                /\ lock' = [lock EXCEPT !["event_tap"] = "free",
                                        !["event_tap_source"] = "free"]
                /\ Return(t, "FailedToWatchMediaKeyEvent")
                /\ UNCHANGED <<event_tap_source, os_sources>>
           ELSE /\ event_tap_source' = Some(r.loop_source)
                /\ os_sources' = r.os_sources
                /\ Log(t, "CFMachPortCreateRunLoopSource", TRUE)
                /\ Goto(t, "start_attach")
                /\ UNCHANGED <<event_tap, os_taps, lock, ptr>>
    /\ UNCHANGED <<hotkeys, media_hotkeys, os_hotkeys, os_runloop, call>>

\* Lines 235-240: attach the source, enable the tap, drop both guards, Ok.
start_attach(t) ==
    /\ pc[t] = "start_attach"
    /\ os_runloop' = os_runloop \cup {unwrap(event_tap_source)}
    /\ os_taps' = CGEventTapEnable(os_taps, ptr[t])
    /\ native_log' = [native_log EXCEPT ![t] =
          @ \o << [fn |-> "CFRunLoopAddSource", ok |-> TRUE],
                  [fn |-> "CGEventTapEnable", ok |-> TRUE] >>]
    /\ lock' = [lock EXCEPT !["event_tap"] = "free",
                            !["event_tap_source"] = "free"]
    /\ Return(t, "Ok")
    /\ UNCHANGED <<mgr, os_hotkeys, os_sources, call>>

(* ---------------- unregister -------------------------------------------- *)

\* A caller enters unregister(hotkey).
unregister(t, hotkey) ==
    /\ batch.op = "none"
    /\ enter(t, "unregister", hotkey)
    /\ UNCHANGED batch

\* Lines 162-167: a media key; the guard lives to the end of the branch, so
\* stop_watching_media_keys runs with the media_hotkeys lock held.
unregister_media(t) ==
    /\ pc[t] = "unregister"
    /\ is_media_key(hk[t].key)
    /\ lock["media_hotkeys"] = "free"
    /\ media_hotkeys' = media_hotkeys \ {hk[t]}
    /\ IF media_hotkeys' = {}
       THEN /\ lock' = Acquire("media_hotkeys", t)
            /\ Goto(t, "stop_take_source")
            /\ UNCHANGED ptr
       ELSE /\ Return(t, "Ok")
            /\ UNCHANGED lock
    /\ UNCHANGED <<hotkeys, event_tap, event_tap_source, os, call,
                   native_log>>

\* unregister_standard reading the entry with get instead of remove.
unregister_standard_keeping_entry(t) ==
    /\ pc[t] = "unregister"
    /\ ~is_media_key(hk[t].key)
    /\ lock["hotkeys"] = "free"
    /\ IF HotKeyId(hk[t]) \in DOMAIN hotkeys
       THEN /\ ptr' = [ptr EXCEPT ![t] = hotkeys[HotKeyId(hk[t])].ptr]
            /\ lock' = Acquire("hotkeys", t)
            /\ Goto(t, "unregister_native")
       ELSE /\ Return(t, "Ok")
            /\ UNCHANGED lock
    /\ UNCHANGED <<mgr, os, call, native_log>>

\* Line 168: remove the entry; the hotkeys guard is a temporary of the
\* `if let` scrutinee and lives through the body.
unregister_standard(t) ==
    /\ pc[t] = "unregister"
    /\ ~is_media_key(hk[t].key)
    /\ lock["hotkeys"] = "free"
    /\ IF HotKeyId(hk[t]) \in DOMAIN hotkeys
       THEN /\ ptr' = [ptr EXCEPT ![t] = hotkeys[HotKeyId(hk[t])].ptr]
            /\ hotkeys' = MapRemove(hotkeys, HotKeyId(hk[t]))
            /\ lock' = Acquire("hotkeys", t)
            /\ Goto(t, "unregister_native")
       ELSE /\ Return(t, "Ok")
            /\ UNCHANGED <<hotkeys, lock>>
    /\ UNCHANGED <<media_hotkeys, event_tap, event_tap_source, os, call,
                   native_log>>

\* unregister_hotkey_ptr that returns Ok without calling Carbon.
unregister_hotkey_ptr_without_native_call(t, granted) ==
    /\ pc[t] = "unregister_native"
    /\ Return(t, "Ok")
    /\ lock' = [lock EXCEPT !["hotkeys"] = "free"]
    /\ UNCHANGED <<mgr, os, call, native_log>>

\* Lines 169-172 and unregister_hotkey_ptr, lines 189-199.
unregister_hotkey_ptr(t, granted) ==
    /\ pc[t] = "unregister_native"
    /\ LET r == UnregisterEventHotKey(ptr[t], granted)
       IN  /\ os_hotkeys' = r.os_hotkeys
           /\ Log(t, "UnregisterEventHotKey", r.status = noErr)
           /\ Return(t, IF r.status # noErr THEN "FailedToUnRegister" ELSE "Ok")
    /\ lock' = [lock EXCEPT !["hotkeys"] = "free"]
    /\ UNCHANGED <<mgr, os_taps, os_sources, os_runloop, call>>

(* ---------------- stop_watching_media_keys ------------------------------ *)

\* Line 245: lock event_tap_source and take() the handle.
stop_take_source(t) ==
    /\ pc[t] = "stop_take_source"
    /\ lock["event_tap_source"] = "free"
    /\ IF is_some(event_tap_source)
       THEN /\ ptr' = [ptr EXCEPT ![t] = unwrap(event_tap_source)]
            /\ event_tap_source' = None
            /\ lock' = Acquire("event_tap_source", t)
            /\ Goto(t, "stop_remove_source")
       ELSE /\ Goto(t, "stop_take_tap")
            /\ UNCHANGED <<event_tap_source, lock, ptr>>
    /\ UNCHANGED <<hotkeys, media_hotkeys, event_tap, os, call, native_log>>

\* Lines 246-247: CFRunLoopRemoveSource.
stop_remove_source(t) ==
    /\ pc[t] = "stop_remove_source"
    /\ os_runloop' = os_runloop \ {ptr[t]}
    /\ Log(t, "CFRunLoopRemoveSource", TRUE)
    /\ Goto(t, "stop_release_source")
    /\ UNCHANGED <<mgr, lock, os_hotkeys, os_taps, os_sources, ptr, call>>

\* stop_release_source without the CFRelease of line 248.
stop_release_source_without_release(t) ==
    /\ pc[t] = "stop_release_source"
    /\ lock' = [lock EXCEPT !["event_tap_source"] = "free"]
    /\ Goto(t, "stop_take_tap")
    /\ ptr' = [ptr EXCEPT ![t] = NullRef]
    /\ UNCHANGED <<mgr, os, call, native_log>>

\* stop_release_source with the event_tap_source guard bound to a local of
\* stop_watching_media_keys: it is still held when line 250 locks event_tap.
stop_release_source_keeping_the_guard(t) ==
    /\ pc[t] = "stop_release_source"
    /\ os_sources' = CFRelease(os_sources, ptr[t])
    /\ Log(t, "CFRelease(source)", TRUE)
    /\ Goto(t, "stop_take_tap")
    /\ ptr' = [ptr EXCEPT ![t] = NullRef]
    /\ UNCHANGED <<mgr, lock, os_hotkeys, os_taps, os_runloop, call>>

\* Lines 248-249: CFRelease(source); the event_tap_source guard drops.
stop_release_source(t) ==
    /\ pc[t] = "stop_release_source"
    /\ os_sources' = CFRelease(os_sources, ptr[t])
    /\ Log(t, "CFRelease(source)", TRUE)
    /\ lock' = [lock EXCEPT !["event_tap_source"] = "free"]
    /\ Goto(t, "stop_take_tap")
    /\ ptr' = [ptr EXCEPT ![t] = NullRef]
    /\ UNCHANGED <<mgr, os_hotkeys, os_taps, os_runloop, call>>

\* stop_take_tap copying the handle out of the Option where line 250 calls
\* take(): the released tap stays recorded.
stop_take_tap_without_take(t) ==
    /\ pc[t] = "stop_take_tap"
    /\ lock["event_tap"] = "free"
    /\ IF is_some(event_tap)
       THEN /\ ptr' = [ptr EXCEPT ![t] = unwrap(event_tap)]
            /\ lock' = Acquire("event_tap", t)
            /\ Goto(t, "stop_invalidate")
       ELSE /\ lock' = [lock EXCEPT !["media_hotkeys"] = "free"]
            /\ Return(t, "Ok")
    /\ UNCHANGED <<mgr, os, call, native_log>>

\* Line 250: lock event_tap and take() the handle; with no tap recorded,
\* stop returns and unregister drops the media_hotkeys guard (lines 170-172).
stop_take_tap(t) ==
    /\ pc[t] = "stop_take_tap"
    /\ lock["event_tap"] = "free"
    /\ IF is_some(event_tap)
       THEN /\ ptr' = [ptr EXCEPT ![t] = unwrap(event_tap)]
            /\ event_tap' = None
            /\ lock' = Acquire("event_tap", t)
            /\ Goto(t, "stop_invalidate")
       ELSE /\ lock' = [lock EXCEPT !["media_hotkeys"] = "free"]
            /\ Return(t, "Ok")
            /\ UNCHANGED event_tap
    /\ UNCHANGED <<hotkeys, media_hotkeys, event_tap_source, os, call,
                   native_log>>

\* Line 251: CFMachPortInvalidate.
stop_invalidate(t) ==
    /\ pc[t] = "stop_invalidate"
    /\ os_taps' = CFMachPortInvalidate(os_taps, ptr[t])
    /\ Log(t, "CFMachPortInvalidate", TRUE)
    /\ Goto(t, "stop_release_tap")
    /\ UNCHANGED <<mgr, lock, os_hotkeys, os_sources, os_runloop, ptr, call>>

\* Lines 252-254: CFRelease(tap); the event_tap guard drops, stop returns and
\* unregister drops the media_hotkeys guard and returns Ok (lines 170-172).
stop_release_tap(t) ==
    /\ pc[t] = "stop_release_tap"
    /\ os_taps' = CFRelease(os_taps, ptr[t])
    /\ Log(t, "CFRelease(tap)", TRUE)
    /\ lock' = [lock EXCEPT !["event_tap"] = "free",
                            !["media_hotkeys"] = "free"]
    /\ Return(t, "Ok")
    /\ UNCHANGED <<mgr, os_hotkeys, os_sources, os_runloop, call>>

(* ---------------- register_all, unregister_all, drop --------------------- *)

\* The longest slice handed to register_all and unregister_all.
MaxSlice == 3

\* The hotkeys the slices are made of.
BatchHotKeys == {hotkey_1, hotkey_2, media_1}

Slices == UNION {[1..n -> BatchHotKeys] : n \in 0..MaxSlice}

\* The calls of the loop that have returned, the last one included.
Completed(t) ==
    IF batch.next - 1 > Len(batch.trace)
    THEN Append(batch.trace, [hotkey |-> hk[t], ret |-> ret[t],
                              native_log |-> native_log[t]])
    ELSE batch.trace

\* Lines 175-176: register_all(hotkeys) is entered.
register_all(t, slice) ==
    /\ pc[t] = "idle"
    /\ batch.ret # "pending"
    /\ batch.op # "drop"
    /\ batch' = [op |-> "register_all", hotkeys |-> slice, next |-> 1,
                 trace |-> << >>, ret |-> "pending"]
    /\ UNCHANGED <<mgr, os, lock, pc, op, hk, ret, ptr, pre, native_log,
                   lastCb, os_handlers, strong_count>>

\* Lines 182-183: unregister_all(hotkeys) is entered.
unregister_all(t, slice) ==
    /\ pc[t] = "idle"
    /\ batch.ret # "pending"
    /\ batch.op # "drop"
    /\ batch' = [op |-> "unregister_all", hotkeys |-> slice, next |-> 1,
                 trace |-> << >>, ret |-> "pending"]
    /\ UNCHANGED <<mgr, os, lock, pc, op, hk, ret, ptr, pre, native_log,
                   lastCb, os_handlers, strong_count>>

\* The loop of register_all and unregister_all without the `?`: it goes on
\* to the next element whatever the call before returned.
all_next_ignoring_errors(t) ==
    /\ batch.ret = "pending"
    /\ pc[t] = "idle"
    /\ batch.next <= Len(batch.hotkeys)
    /\ enter(t, IF batch.op = "register_all" THEN "register" ELSE "unregister",
             batch.hotkeys[batch.next])
    /\ batch' = [batch EXCEPT !.next = @ + 1, !.trace = Completed(t)]

\* Lines 176-177, 183-184 and 327-328: the loop calls register or unregister
\* on the next element; register_all and unregister_all get here only when
\* the call before returned Ok (the `?`), drop whatever it returned (`let _`).
all_next(t) ==
    /\ batch.ret = "pending"
    /\ pc[t] = "idle"
    /\ batch.next <= Len(batch.hotkeys)
    /\ batch.next = 1 \/ ret[t] = "Ok" \/ batch.op = "drop"
    /\ enter(t, IF batch.op = "register_all" THEN "register" ELSE "unregister",
             batch.hotkeys[batch.next])
    /\ batch' = [batch EXCEPT !.next = @ + 1, !.trace = Completed(t)]

\* Lines 177-179 and 184-186: the `?` returns the first error, and the end
\* of the slice returns Ok.
all_return(t) ==
    /\ batch.ret = "pending"
    /\ batch.op \in {"register_all", "unregister_all"}
    /\ pc[t] = "idle"
    /\ LET failed == batch.next > 1 /\ ret[t] # "Ok"
       IN  /\ failed \/ batch.next > Len(batch.hotkeys)
           /\ batch' = [batch EXCEPT !.trace = Completed(t),
                                     !.ret = IF failed THEN ret[t] ELSE "Ok"]
    /\ UNCHANGED <<mgr, os, lock, pc, op, hk, ret, ptr, pre, native_log,
                   lastCb, os_handlers, strong_count>>

\* The hotkeys of the Registry in the order a BTreeMap iterates: by id.
RECURSIVE InKeyOrder(_)
InKeyOrder(map) ==
    IF DOMAIN map = {} THEN << >>
    ELSE LET k == CHOOSE x \in DOMAIN map : \A y \in DOMAIN map : x <= y
         IN  << map[k].hotkey >> \o InKeyOrder(MapRemove(map, k))

\* Drop, line 326: `&mut self` means no call is in progress; the Registry
\* is cloned under its lock and the lock is released.
drop(t) ==
    /\ \A u \in Threads : pc[u] = "idle"
    /\ batch.op = "none"
    /\ lock["hotkeys"] = "free"
    /\ batch' = [op |-> "drop", hotkeys |-> InKeyOrder(hotkeys), next |-> 1,
                 trace |-> << >>, ret |-> "pending"]
    /\ lastCb' = NoCallback
    /\ UNCHANGED <<mgr, os, lock, pc, op, hk, ret, ptr, pre, native_log,
                   os_handlers, strong_count>>

\* RemoveEventHandler of a live handler reference.
RemoveEventHandler(handlers, handler_ref) == handlers \ {handler_ref}

\* Drop with `?` in place of `let _`: the loop is left at the first
\* unregister that fails.
drop_remove_handler_after_first_failure(t) ==
    /\ batch.op = "drop"
    /\ batch.ret = "pending"
    /\ pc[t] = "idle"
    /\ batch.next > Len(batch.hotkeys) \/ (batch.next > 1 /\ ret[t] # "Ok")
    /\ os_handlers' = RemoveEventHandler(os_handlers, event_handler_ptr)
    /\ batch' = [batch EXCEPT !.trace = Completed(t), !.ret = "stopping"]
    /\ pc' = [pc EXCEPT ![t] = "stop_take_source"]
    /\ op' = [op EXCEPT ![t] = "drop"]
    /\ ret' = [ret EXCEPT ![t] = "pending"]
    /\ pre' = [pre EXCEPT ![t] = Snapshot]
    /\ native_log' = [native_log EXCEPT ![t] =
                        << [fn |-> "RemoveEventHandler", ok |-> TRUE] >>]
    /\ lastCb' = NoCallback
    /\ UNCHANGED <<mgr, os, lock, hk, ptr, strong_count>>

\* Drop, lines 330-334: after the loop, RemoveEventHandler (its status is
\* not looked at), then stop_watching_media_keys is entered.
drop_remove_handler(t) ==
    /\ batch.op = "drop"
    /\ batch.ret = "pending"
    /\ pc[t] = "idle"
    /\ batch.next > Len(batch.hotkeys)
    /\ os_handlers' = RemoveEventHandler(os_handlers, event_handler_ptr)
    /\ batch' = [batch EXCEPT !.trace = Completed(t), !.ret = "stopping"]
    /\ pc' = [pc EXCEPT ![t] = "stop_take_source"]
    /\ op' = [op EXCEPT ![t] = "drop"]
    /\ ret' = [ret EXCEPT ![t] = "pending"]
    /\ pre' = [pre EXCEPT ![t] = Snapshot]
    /\ native_log' = [native_log EXCEPT ![t] =
                        << [fn |-> "RemoveEventHandler", ok |-> TRUE] >>]
    /\ lastCb' = NoCallback
    /\ UNCHANGED <<mgr, os, lock, hk, ptr, strong_count>>

\* Drop, line 335: stop_watching_media_keys has returned; the fields are
\* dropped, the manager's Arc (line 42) among them, and the manager is gone.
drop_return(t) ==
    /\ batch.op = "drop"
    /\ batch.ret = "stopping"
    /\ pc[t] = "idle"
    /\ batch' = [batch EXCEPT !.ret = "dropped"]
    /\ strong_count' = strong_count - 1
    /\ UNCHANGED <<mgr, os, lock, pc, op, hk, ret, ptr, pre, native_log,
                   lastCb, os_handlers>>

(* ---------------- the native callbacks ---------------------------------- *)

\* GlobalHotKeyEvent { id, state }.
GlobalHotKeyEvent(id, state) == [id |-> id, state |-> state]

\* GetEventParameter(event, kEventParamDirectObject, typeEventHotKeyID, ..):
\* the EventHotKeyID of the event, when it carries one.
GetEventParameter(event) ==
    IF is_some(event.direct_object)
    THEN [result |-> noErr, event_hotkey |-> unwrap(event.direct_object)]
    ELSE [result |-> -9870, event_hotkey |-> [id |-> 0, signature |-> 0]]

GetEventKind(event) == event.kind

\* hotkey_handler that does not look at the event kind.
hotkey_handler_ignoring_kind(event) ==
    LET p == GetEventParameter(event)
    IN  [ret |-> noErr,
         sent |-> IF p.result = noErr
                  THEN << GlobalHotKeyEvent(p.event_hotkey.id, "Pressed") >>
                  ELSE << >>]

\* hotkey_handler, lines 337-372: the events it sends and the status it returns.
hotkey_handler(event) ==
    LET p == GetEventParameter(event)
        event_kind == GetEventKind(event)
    IN  [ret |-> noErr,
         sent |->
            IF p.result = noErr
            THEN CASE event_kind = kEventHotKeyPressed ->
                        << GlobalHotKeyEvent(p.event_hotkey.id, "Pressed") >>
                   [] event_kind = kEventHotKeyReleased ->
                        << GlobalHotKeyEvent(p.event_hotkey.id, "Released") >>
                   [] OTHER -> << >>
            ELSE << >>]

\* Whether bit k of n is set.
BitSet(n, k) == (n \div (2^k)) % 2 = 1

\* NSEventModifierFlags::from_bits_truncate, lines 258-266.
from_bits_truncate(bits) ==
    {f \in {"Shift", "Control", "Option", "Command"} :
        BitSet(bits, CASE f = "Shift" -> 17 [] f = "Control" -> 18
                       [] f = "Option" -> 19 [] f = "Command" -> 20)}

\* impl From<NSEventModifierFlags> for Modifiers, lines 268-285.
ModifiersFrom(mod_flags) ==
       (IF "Shift" \in mod_flags THEN {"SHIFT"} ELSE {})
    \cup (IF "Control" \in mod_flags THEN {"CONTROL"} ELSE {})
    \cup (IF "Option" \in mod_flags THEN {"ALT"} ELSE {})
    \cup (IF "Command" \in mod_flags THEN {"META"} ELSE {})

\* impl TryFrom<i64> for NX_KEYTYPE, lines 297-310.
NX_KEYTYPE_try_from(value) ==
    CASE value = 16 -> Some("Play")
      [] value = 17 -> Some("Next")
      [] value = 18 -> Some("Previous")
      [] value = 19 -> Some("Fast")
      [] value = 20 -> Some("Rewind")
      [] OTHER -> None

\* impl From<NX_KEYTYPE> for Code, lines 312-322.
CodeFrom(nx_keytype) ==
    CASE nx_keytype = "Play" -> "MediaPlayPause"
      [] nx_keytype = "Next" -> "MediaTrackNext"
      [] nx_keytype = "Previous" -> "MediaTrackPrevious"
      [] nx_keytype = "Fast" -> "MediaFastForward"
      [] nx_keytype = "Rewind" -> "MediaRewind"

\* Line 391: (data_1 & 0xFFFF0000) >> 16.
KeyTypeField(data_1) == (data_1 \div 65536) % 65536

\* Lines 408-409: ((data_1 & 0x0000FFFF) & 0xFF00) >> 8 == 0xA.
IsPressedField(data_1) == ((data_1 % 65536) \div 256) % 256 = 10

\* Lines 397-402: the HotKey the callback builds to match against the set.
DecodedHotKey(event) ==
    HotKeyNew(ModifiersFrom(from_bits_truncate(event.modifierFlags)),
              CodeFrom(unwrap(NX_KEYTYPE_try_from(KeyTypeField(event.data1)))))

\* A lookup that compares the key alone, not the modifiers.
SetGetByKey(set, value) ==
    IF \E m \in set : m.key = value.key
    THEN Some(CHOOSE m \in set : m.key = value.key)
    ELSE None

\* HashSet::get: the member equal to the value, if any.
SetGet(set, value) ==
    IF value \in set THEN Some(CHOOSE m \in set : m = value) ELSE None

PassThrough(event, locked) ==
    [ret |-> Some(event), sent |-> << >>, locked |-> locked]

\* media_key_event_callback without the `return ptr::null()` of line 419.
media_key_event_callback_not_suppressing(ev_type, event, user_info) ==
    IF ev_type # SystemDefined THEN PassThrough(event, FALSE)
    ELSE IF ~(event.type = NSSystemDefined /\ event.subtype = 8)
    THEN PassThrough(event, FALSE)
    ELSE IF ~is_some(NX_KEYTYPE_try_from(KeyTypeField(event.data1)))
    THEN PassThrough(event, FALSE)
    ELSE LET found == SetGet(user_info, DecodedHotKey(event))
         IN  IF is_some(found)
             THEN [ret |-> Some(event),
                   sent |-> << GlobalHotKeyEvent(
                                  HotKeyId(unwrap(found)),
                                  IF IsPressedField(event.data1)
                                  THEN "Pressed" ELSE "Released") >>,
                   locked |-> TRUE]
             ELSE PassThrough(event, TRUE)

\* media_key_event_callback, lines 374-424: the event it returns (None is
\* null), the events it sends, and whether it locked the Media Key Set.
media_key_event_callback(ev_type, event, user_info) ==
    IF ev_type # SystemDefined THEN PassThrough(event, FALSE)
    ELSE IF ~(event.type = NSSystemDefined /\ event.subtype = 8)
    THEN PassThrough(event, FALSE)
    ELSE IF ~is_some(NX_KEYTYPE_try_from(KeyTypeField(event.data1)))
    THEN PassThrough(event, FALSE)
    ELSE LET found == SetGet(user_info, DecodedHotKey(event))
         IN  IF is_some(found)
             THEN [ret |-> None,
                   sent |-> << GlobalHotKeyEvent(
                                  HotKeyId(unwrap(found)),
                                  IF IsPressedField(event.data1)
                                  THEN "Pressed" ELSE "Released") >>,
                   locked |-> TRUE]
             ELSE PassThrough(event, TRUE)

\* The notifications handed to hotkey_handler: with or without an
\* EventHotKeyID, of kind pressed, released or another kind.
HandlerEvents ==
    {[direct_object |-> d, kind |-> k] :
        d \in {None, Some(EventHotKeyID(hotkey_2)), Some(EventHotKeyID(hotkey_1))},
        k \in {kEventHotKeyPressed, kEventHotKeyReleased, 7}}

\* The events handed to the tap callback: a key-down event, a system-defined
\* event of another subtype, and media-key events of key types 16, 17 and 21,
\* key down (0xA) or up (0xB), without modifiers or with Command plus an
\* unrelated flag bit.
TapEvents ==
    {[ev_type |-> KeyDown, type |-> 10, subtype |-> 0, data1 |-> 0,
      modifierFlags |-> 0],
     [ev_type |-> SystemDefined, type |-> NSSystemDefined, subtype |-> 7,
      data1 |-> 16 * 65536 + 10 * 256, modifierFlags |-> 0]}
    \cup
    {[ev_type |-> SystemDefined, type |-> NSSystemDefined, subtype |-> 8,
      data1 |-> kt * 65536 + st * 256 + 1, modifierFlags |-> mf] :
        kt \in {16, 17, 21}, st \in {10, 11}, mf \in {0, 2^20 + 256}}

\* Carbon invokes the handler installed by new (lines 63-70).
HotKeyNotification(event) ==
    /\ event_handler_ptr \in os_handlers
    /\ LET r == hotkey_handler(event)
       IN  lastCb' = [fn |-> "hotkey_handler", event |-> event, ret |-> r.ret,
                      sent |-> r.sent, media_hotkeys |-> {}]
    /\ UNCHANGED <<mgr, os, lock, pc, op, hk, ret, ptr, pre, native_log,
                   batch, os_handlers, strong_count>>

\* The tap callback looking the hotkey up with HashSet::take in place of
\* get: a matched hotkey leaves the Media Key Set.
TapEvent_taking_the_match(event) ==
    /\ TapDelivers
    /\ LET r == media_key_event_callback(event.ev_type, event, media_hotkeys)
       IN  /\ r.locked => lock["media_hotkeys"] = "free"
           /\ lastCb' = [fn |-> "media_key_event_callback", event |-> event,
                         ret |-> r.ret, sent |-> r.sent,
                         media_hotkeys |-> media_hotkeys]
           /\ media_hotkeys' = IF r.sent # << >>
                               THEN media_hotkeys \ {DecodedHotKey(event)}
                               ELSE media_hotkeys
    /\ UNCHANGED <<hotkeys, event_tap, event_tap_source, os, lock, pc, op, hk,
                   ret, ptr, pre, native_log, batch, os_handlers, strong_count>>

\* The tap callback rebuilding the Arc from user_info with Arc::from_raw in
\* place of the borrow of line 405: the Arc is dropped when it returns.
TapEvent_reclaiming_the_arc(event) ==
    /\ TapDelivers
    /\ LET r == media_key_event_callback(event.ev_type, event, media_hotkeys)
       IN  /\ r.locked => lock["media_hotkeys"] = "free"
           /\ lastCb' = [fn |-> "media_key_event_callback", event |-> event,
                         ret |-> r.ret, sent |-> r.sent,
                         media_hotkeys |-> media_hotkeys]
           /\ strong_count' = IF r.locked /\ strong_count > 0
                              THEN strong_count - 1 ELSE strong_count
    /\ UNCHANGED <<mgr, os, lock, pc, op, hk, ret, ptr, pre, native_log,
                   batch, os_handlers>>

\* The window server invokes the tap callback; line 407 locks media_hotkeys.
TapEvent(event) ==
    /\ TapDelivers
    /\ LET r == media_key_event_callback(event.ev_type, event, media_hotkeys)
       IN  /\ r.locked => lock["media_hotkeys"] = "free"
           /\ lastCb' = [fn |-> "media_key_event_callback", event |-> event,
                         ret |-> r.ret, sent |-> r.sent,
                         media_hotkeys |-> media_hotkeys]
    /\ UNCHANGED <<mgr, os, lock, pc, op, hk, ret, ptr, pre, native_log,
                   batch, os_handlers, strong_count>>

\* The tap callback as a thread of its own, for the runs in which callers
\* wait for locks: it is invoked with a media-key event, reaches line 407 and
\* takes the media_hotkeys lock; get runs under the lock, so what the
\* callback sends and returns is settled here.
callback_lock(event) ==
    /\ TapDelivers
    /\ LET r == media_key_event_callback(event.ev_type, event, media_hotkeys)
       IN  /\ r.locked
           /\ lastCb' = [fn |-> "media_key_event_callback", event |-> event,
                         ret |-> r.ret, sent |-> r.sent,
                         media_hotkeys |-> media_hotkeys]
    /\ lock["media_hotkeys"] = "free"
    /\ lock' = Acquire("media_hotkeys", "callback")
    /\ UNCHANGED <<mgr, os, pc, op, hk, ret, ptr, pre, native_log, batch,
                   os_handlers, strong_count>>

\* Lines 407-424: the guard, a temporary of the `if let` scrutinee, is
\* dropped on the way out of the callback.
callback_return ==
    /\ lock["media_hotkeys"] = "callback"
    /\ lock' = [lock EXCEPT !["media_hotkeys"] = "free"]
    /\ UNCHANGED <<mgr, os, pc, op, hk, ret, ptr, pre, native_log, lastCb,
                   batch, os_handlers, strong_count>>

\* The media-key events of the runs with a callback thread: Play and Next,
\* key down, no modifiers; the first is that of media_1.
CallbackEvents ==
    {e \in TapEvents : /\ e.subtype = 8
                       /\ KeyTypeField(e.data1) \in {16, 17}
                       /\ IsPressedField(e.data1)
                       /\ e.modifierFlags = 0}

(* ---------------- specifications ---------------------------------------- *)

\* One step of a call in progress on a key that register accepts.
Step(t) ==
    \/ \E granted \in BOOLEAN : register_standard(t, granted)
    \/ register_insert(t)
    \/ register_media(t)
    \/ start_lock_event_tap(t)
    \/ start_lock_event_tap_source(t)
    \/ \E granted \in BOOLEAN : start_create_tap(t, granted)
    \/ \E granted \in BOOLEAN : start_create_source(t, granted)
    \/ start_attach(t)
    \/ unregister_media(t)
    \/ unregister_standard(t)
    \/ \E granted \in BOOLEAN : unregister_hotkey_ptr(t, granted)
    \/ stop_take_source(t)
    \/ stop_remove_source(t)
    \/ stop_release_source(t)
    \/ stop_take_tap(t)
    \/ stop_invalidate(t)
    \/ stop_release_tap(t)

\* A single caller thread, the two callbacks, and the teardown.
Next ==
    \/ \E h \in HotKeys : register("t1", h)
    \/ \E h \in HotKeys : unregister("t1", h)
    \/ Step("t1")
    \/ register_unknown("t1")
    \/ \E e \in HandlerEvents : HotKeyNotification(e)
    \/ \E e \in TapEvents : TapEvent(e)
    \/ drop("t1")
    \/ all_next("t1")
    \/ drop_remove_handler("t1")
    \/ drop_return("t1")

Spec == Init /\ [][Next]_vars

\* A single caller thread that calls register_all and unregister_all.
BatchNext ==
    \/ \E slice \in Slices : register_all("t1", slice)
    \/ \E slice \in Slices : unregister_all("t1", slice)
    \/ all_next("t1")
    \/ all_return("t1")
    \/ Step("t1")

BatchSpec == Init /\ [][BatchNext]_vars

\* Two caller threads running register and unregister concurrently.
ConcNext ==
    \/ \E t \in Threads, h \in ConcHotKeys : register(t, h)
    \/ \E t \in Threads, h \in ConcHotKeys : unregister(t, h)
    \/ \E t \in Threads : Step(t)

ConcSpec == Init /\ [][ConcNext]_vars

\* Two caller threads, and the teardown once both are idle.
ConcDropNext ==
    \/ ConcNext
    \/ drop("t1")
    \/ all_next("t1")
    \/ drop_remove_handler("t1")
    \/ drop_return("t1")

ConcDropSpec == Init /\ [][ConcDropNext]_vars

\* The calls of the runs with a callback thread work on one half of the
\* manager at a time: a call on a media hotkey is entered while the Registry
\* and Carbon hold no standard hotkey and no call on one is in progress, a
\* call on a standard hotkey while the media half is as new builds it.  The
\* two halves share no lock and no field.
SameHalf(hotkey) ==
    IF is_media_key(hotkey.key)
    THEN /\ hotkeys = EmptyMap /\ os_hotkeys = EmptyMap
         /\ \A u \in Threads : pc[u] # "idle" => is_media_key(hk[u].key)
    ELSE /\ media_hotkeys = {} /\ strong_count = 1
         /\ \A u \in Threads : pc[u] # "idle" => ~is_media_key(hk[u].key)

\* Two caller threads and the tap callback, all of which get to run: a
\* caller that can take a step again and again takes one (a thread waiting
\* for a mutex gets it if it is free again and again), and the callback
\* that holds the lock returns.
FairNext ==
    \/ \E t \in Threads, h \in ConcHotKeys : SameHalf(h) /\ register(t, h)
    \/ \E t \in Threads, h \in ConcHotKeys : SameHalf(h) /\ unregister(t, h)
    \/ \E t \in Threads : Step(t)
    \/ \E e \in CallbackEvents : callback_lock(e)
    \/ callback_return

FairSpec ==
    /\ Init
    /\ [][FairNext]_vars
    /\ \A t \in Threads : SF_vars(Step(t))
    /\ WF_vars(callback_return)

\* A fresh manager, then register(h) and unregister(h) of one standard
\* hotkey h, for every key with a scan code and every modifier set.
RoundTripNext ==
    \/ \E h \in StandardHotKeys : op["t1"] = "none" /\ register("t1", h)
    \/ op["t1"] = "register" /\ unregister("t1", hk["t1"])
    \/ \E granted \in BOOLEAN : register_standard("t1", granted)
    \/ register_insert("t1")
    \/ unregister_standard("t1")
    \/ \E granted \in BOOLEAN : unregister_hotkey_ptr("t1", granted)

RoundTripSpec == Init /\ [][RoundTripNext]_vars

(* ---------------- the claims -------------------------------------------- *)

\* Thread t has returned from a call of `operation`.
Returned(t, operation) ==
    pc[t] = "idle" /\ op[t] = operation /\ ret[t] # "pending"

RegisterErrors ==
    {"FailedToRegister", "AlreadyRegistered", "FailedToWatchMediaKeyEvent"}

\* Every native call the last call of t made reported success.
NativeCallsSucceeded(t) ==
    \A i \in 1..Len(native_log[t]) : native_log[t][i].ok

\* C1: a register call that returns FailedToRegister, AlreadyRegistered or
\* FailedToWatchMediaKeyEvent leaves the Registry and the Media Key Set
\* exactly as they were when the call began.
C1_FailedRegisterChangesNothing ==
    \A t \in Threads :
        (Returned(t, "register") /\ ret[t] \in RegisterErrors)
            => /\ hotkeys = pre[t].hotkeys
               /\ media_hotkeys = pre[t].media_hotkeys

\* C2: whenever no register or unregister call is in progress, the event tap
\* is not installed if the Media Key Set is empty.
C2_NoTapOverEmptySet ==
    ((\A t \in Threads : pc[t] = "idle") /\ media_hotkeys = {})
        => (event_tap = None /\ ~TapDelivers)

\* C3: whenever the event_tap and event_tap_source locks are not both held
\* by one operation, the tap handle and the run-loop-source handle are both
\* present or both absent.
C3_TapAndSourceTogether ==
    (~ \E t \in Threads : lock["event_tap"] = t /\ lock["event_tap_source"] = t)
        => (is_some(event_tap) <=> is_some(event_tap_source))

\* C4: register of a media hotkey that is already in the Media Key Set
\* returns AlreadyRegistered, leaves the set with the same members, and
\* neither activates nor deactivates the interceptor.
C4_MediaReRegisterRejected ==
    \A t \in Threads :
        (/\ Returned(t, "register")
         /\ is_media_key(hk[t].key)
         /\ hk[t] \in pre[t].media_hotkeys)
            => /\ ret[t] = "AlreadyRegistered"
               /\ media_hotkeys = pre[t].media_hotkeys
               /\ native_log[t] = << >>
               /\ event_tap = pre[t].event_tap
               /\ event_tap_source = pre[t].event_tap_source
               /\ os_taps = pre[t].os_taps

\* C4: a second register of a member has returned AlreadyRegistered while the
\* interceptor is delivering.
C4_Witness ==
    /\ Returned("t1", "register")
    /\ hk["t1"] \in pre["t1"].media_hotkeys
    /\ ret["t1"] = "AlreadyRegistered"
    /\ TapDelivers

\* C5: register of a standard hotkey whose identifier is already in the
\* Registry returns FailedToRegister, and the Registry still holds exactly
\* the one entry for that identifier with the handle it had before.
C5_DuplicateStandardRejected ==
    \A t \in Threads :
        (/\ Returned(t, "register")
         /\ is_some(key_to_scancode(hk[t].key))
         /\ HotKeyId(hk[t]) \in DOMAIN pre[t].hotkeys)
            => /\ ret[t] = "FailedToRegister"
               /\ DOMAIN hotkeys = DOMAIN pre[t].hotkeys
               /\ hotkeys[HotKeyId(hk[t])] = pre[t].hotkeys[HotKeyId(hk[t])]
               /\ hotkeys[HotKeyId(hk[t])].ptr \in DOMAIN os_hotkeys
               /\ os_hotkeys = pre[t].os_hotkeys

\* C5: a register of an identifier that was in the Registry has returned,
\* with Carbon itself willing to grant a registration.
C5_Witness ==
    /\ Returned("t1", "register")
    /\ HotKeyId(hk["t1"]) \in DOMAIN pre["t1"].hotkeys
    /\ native_log["t1"] = << [fn |-> "RegisterEventHotKey", ok |-> FALSE] >>
    /\ Cardinality(DOMAIN hotkeys) = 2

MediaKeyEventSeen ==
    /\ lastCb.fn = "media_key_event_callback"
    /\ lastCb.event.ev_type = SystemDefined
    /\ lastCb.event.type = NSSystemDefined
    /\ lastCb.event.subtype = 8
    /\ KeyTypeField(lastCb.event.data1) \in 16..20

\* C7: when the media callback receives a system-defined media-key event
\* whose decoded (key, modifiers) is a member of the Media Key Set, it sends
\* exactly one GlobalHotKeyEvent carrying that member's identifier and the
\* decoded Pressed or Released state, and returns null.
C7_MatchingMediaEventIsForwardedAndSuppressed ==
    (MediaKeyEventSeen /\ DecodedHotKey(lastCb.event) \in lastCb.media_hotkeys)
        => /\ lastCb.ret = None
           /\ Len(lastCb.sent) = 1
           /\ \E m \in lastCb.media_hotkeys :
                 /\ m = DecodedHotKey(lastCb.event)
                 /\ lastCb.sent[1].id = HotKeyId(m)
           /\ lastCb.sent[1].state =
                 IF (lastCb.event.data1 \div 256) % 256 = 10
                 THEN "Pressed" ELSE "Released"

\* C7: the callback has suppressed a release of Command + next-track, a member
\* of the Media Key Set, although the event carried a further flag bit.
C7_Witness ==
    /\ MediaKeyEventSeen
    /\ lastCb.ret = None
    /\ lastCb.event.modifierFlags # 0
    /\ lastCb.sent = << GlobalHotKeyEvent(HotKeyId(media_2), "Released") >>

\* C8: the media callback returns the event it was given and sends nothing
\* when the event is not system-defined, when its key type is not one of the
\* five supported ones, or when its decoded (key, modifiers) is not in the
\* Media Key Set.
C8_OtherEventsPassThrough ==
    (/\ lastCb.fn = "media_key_event_callback"
     /\ \/ lastCb.event.ev_type # SystemDefined
        \/ KeyTypeField(lastCb.event.data1) \notin 16..20
        \/ DecodedHotKey(lastCb.event) \notin lastCb.media_hotkeys)
        => /\ lastCb.ret = Some(lastCb.event)
           /\ lastCb.sent = << >>

\* C8: after unregister of play/pause has returned Ok, with another media
\* hotkey keeping the tap installed, a play/pause press passed through.
C8_Witness ==
    /\ MediaKeyEventSeen
    /\ Returned("t1", "unregister")
    /\ ret["t1"] = "Ok"
    /\ hk["t1"] = media_1
    /\ media_1 \in pre["t1"].media_hotkeys
    /\ DecodedHotKey(lastCb.event) = media_1
    /\ lastCb.media_hotkeys = {media_2}
    /\ lastCb.ret = Some(lastCb.event)

\* C9: hotkey_handler sends exactly one event {id X, Pressed or Released}
\* when identifier X can be extracted from the notification and its kind is
\* pressed or released respectively, and sends none otherwise.
C9_HandlerForwardsPressedAndReleased ==
    lastCb.fn = "hotkey_handler"
        => LET e == lastCb.event
           IN  IF is_some(e.direct_object)
                  /\ e.kind \in {kEventHotKeyPressed, kEventHotKeyReleased}
               THEN lastCb.sent =
                      << [id |-> unwrap(e.direct_object).id,
                          state |-> IF e.kind = kEventHotKeyPressed
                                    THEN "Pressed" ELSE "Released"] >>
               ELSE lastCb.sent = << >>

\* C9: the handler has forwarded a release of Control + ArrowRight.
C9_Witness ==
    /\ lastCb.fn = "hotkey_handler"
    /\ lastCb.event.kind = kEventHotKeyReleased
    /\ lastCb.sent = << GlobalHotKeyEvent(HotKeyId(hotkey_1), "Released") >>

\* A pressed-notification carrying the identifier of the hotkey that thread
\* t registered earlier and has just unregistered successfully was handed to
\* hotkey_handler.
ReplayedAfterUnregister(t) ==
    /\ Returned(t, "unregister")
    /\ ret[t] = "Ok"
    /\ HotKeyId(hk[t]) \in DOMAIN pre[t].hotkeys
    /\ lastCb.fn = "hotkey_handler"
    /\ lastCb.event.kind = kEventHotKeyPressed
    /\ lastCb.event.direct_object = Some(EventHotKeyID(hk[t]))

\* C10, as stated: after H1 was registered and then unregistered, handing the
\* handler the same pressed-notification for H1 yields no GlobalHotKeyEvent.
C10_ReplayYieldsNoEvent ==
    \A t \in Threads : ReplayedAfterUnregister(t) => lastCb.sent = << >>

\* C10, amended: the handler, which never consults the Registry, still sends
\* {H1, Pressed} for a replayed notification; what the successful unregister
\* guarantees is that neither the Registry nor Carbon holds a registration
\* with identifier H1, so Carbon has no such notification left to deliver.
C10_ReplayStillForwardedButNothingRegistered ==
    \A t \in Threads :
        ReplayedAfterUnregister(t)
            => /\ lastCb.sent = << GlobalHotKeyEvent(HotKeyId(hk[t]), "Pressed") >>
               /\ HotKeyId(hk[t]) \notin DOMAIN hotkeys
               /\ \A r \in DOMAIN os_hotkeys :
                      os_hotkeys[r].id # HotKeyId(hk[t])

\* C10: ArrowUp was unregistered with Ok while Control + ArrowRight stays
\* registered, and the pressed-notification for ArrowUp was replayed.
C10_Witness ==
    /\ ReplayedAfterUnregister("t1")
    /\ hk["t1"] = hotkey_2
    /\ DOMAIN hotkeys = {HotKeyId(hotkey_1)}

\* The hotkey is in the Registry or in the Media Key Set.
Registered(hotkey) ==
    hotkey \in media_hotkeys \/ HotKeyId(hotkey) \in DOMAIN hotkeys

\* register_all or unregister_all has returned.
BatchReturned ==
    batch.op \in {"register_all", "unregister_all"} /\ batch.ret # "pending"

\* C11: register_all and unregister_all call the single-hotkey operation on
\* the elements in slice order, return the error of the first call that
\* fails and Ok when none does, make no call after a failed one, and leave
\* the effect of every call that succeeded before it in place.
C11_AllFailsFastWithoutRollback ==
    BatchReturned
        => LET k == Len(batch.trace)
           IN  /\ k <= Len(batch.hotkeys)
               /\ batch.next - 1 = k
               /\ \A i \in 1..k : batch.trace[i].hotkey = batch.hotkeys[i]
               /\ \A i \in 1..(k - 1) : batch.trace[i].ret = "Ok"
               /\ IF k > 0 /\ batch.trace[k].ret # "Ok"
                  THEN batch.ret = batch.trace[k].ret
                  ELSE batch.ret = "Ok" /\ k = Len(batch.hotkeys)
               /\ \A i \in 1..k :
                      batch.trace[i].ret = "Ok"
                          => (Registered(batch.hotkeys[i])
                                <=> batch.op = "register_all")

\* C11: register_all of three hotkeys has returned the error of the second;
\* the first is registered and the third, never attempted, is not.
C11_Witness ==
    /\ BatchReturned
    /\ batch.op = "register_all"
    /\ Len(batch.hotkeys) = 3
    /\ Len(batch.trace) = 2
    /\ batch.ret = "FailedToRegister"
    /\ Registered(batch.hotkeys[1])
    /\ ~Registered(batch.hotkeys[3])

\* The manager has been dropped.
TornDown == batch.op = "drop" /\ batch.ret = "dropped"

\* C12: teardown covers every entry the Registry holds when it starts, and
\* once it is over the Registry is empty, a native unregister was attempted
\* for each of those entries whether or not it succeeded, the handler was
\* removed after them and before the interceptor was stopped, and neither
\* the tap nor the run-loop source is recorded or alive.
C12_TeardownReleasesEverything ==
    /\ batch.op = "drop"
           => \A id \in DOMAIN hotkeys :
                  \E i \in (Len(batch.trace) + 1)..Len(batch.hotkeys) :
                      HotKeyId(batch.hotkeys[i]) = id
    /\ TornDown
           => /\ hotkeys = EmptyMap
              /\ Len(batch.trace) = Len(batch.hotkeys)
              /\ \A i \in 1..Len(batch.trace) :
                     /\ batch.trace[i].hotkey = batch.hotkeys[i]
                     /\ Len(batch.trace[i].native_log) = 1
                     /\ batch.trace[i].native_log[1].fn = "UnregisterEventHotKey"
              /\ os_handlers = {}
              /\ op["t1"] = "drop"
              /\ native_log["t1"][1].fn = "RemoveEventHandler"
              /\ is_some(pre["t1"].event_tap)
                     => native_log["t1"][Len(native_log["t1"])].fn = "CFRelease(tap)"
              /\ event_tap = None
              /\ event_tap_source = None
              /\ os_taps = EmptyMap
              /\ os_sources = EmptyMap
              /\ os_runloop = {}

\* C12: a manager with two standard hotkeys and the interceptor installed has
\* been dropped although the native unregister of the first hotkey failed.
C12_Witness ==
    /\ TornDown
    /\ Len(batch.trace) = 2
    /\ batch.trace[1].ret = "FailedToUnRegister"
    /\ batch.trace[2].ret = "Ok"
    /\ is_some(pre["t1"].event_tap)
    /\ media_hotkeys # {}

\* The functions the native calls of thread t's last call named, in order.
NativeCalls(t) == [i \in 1..Len(native_log[t]) |-> native_log[t][i].fn]

\* C13: when activation fails at the creation of the tap or of its run-loop
\* source, register returns FailedToWatchMediaKeyEvent exactly then, and
\* afterwards no tap or source handle is recorded and no native tap or
\* source is alive: a tap created before the source failed was invalidated
\* and released.
C13_FailedActivationLeavesNoResource ==
    \A t \in Threads :
        (Returned(t, "register") /\ is_media_key(hk[t].key)
         /\ native_log[t] # << >>)
            => /\ ret[t] = "FailedToWatchMediaKeyEvent"
                   <=> ~NativeCallsSucceeded(t)
               /\ ret[t] = "FailedToWatchMediaKeyEvent"
                   => /\ event_tap = None
                      /\ event_tap_source = None
                      /\ os_taps = EmptyMap
                      /\ os_sources = EmptyMap
                      /\ os_runloop = {}
                      /\ NativeCalls(t) \in
                           { << "CGEventTapCreate" >>,
                             << "CGEventTapCreate",
                                "CFMachPortCreateRunLoopSource",
                                "CFMachPortInvalidate", "CFRelease(tap)" >> }

\* C13: register has failed at the creation of the run-loop source, after
\* the tap had been created.
C13_Witness ==
    /\ Returned("t1", "register")
    /\ ret["t1"] = "FailedToWatchMediaKeyEvent"
    /\ Len(native_log["t1"]) = 4
    /\ native_log["t1"][1].ok
    /\ ~native_log["t1"][2].ok
    /\ os_taps = EmptyMap

\* C14: a register that asks for activation while the interceptor is
\* installed returns Ok, makes no native call and leaves the recorded
\* handles and the native tap and source as they were; and at no time is
\* there more than one native tap or source, the recorded one if any.
C14_ActivationIsIdempotent ==
    /\ \A t \in Threads :
           (/\ Returned(t, "register")
            /\ is_media_key(hk[t].key)
            /\ hk[t] \notin pre[t].media_hotkeys
            /\ is_some(pre[t].event_tap) \/ is_some(pre[t].event_tap_source))
               => /\ ret[t] = "Ok"
                  /\ native_log[t] = << >>
                  /\ event_tap = pre[t].event_tap
                  /\ event_tap_source = pre[t].event_tap_source
                  /\ os_taps = pre[t].os_taps
                  /\ os_sources = pre[t].os_sources
    /\ Cardinality(DOMAIN os_taps) <= 1
    /\ Cardinality(DOMAIN os_sources) <= 1
    /\ is_some(event_tap) => DOMAIN os_taps = {unwrap(event_tap)}
    /\ is_some(event_tap_source) => DOMAIN os_sources = {unwrap(event_tap_source)}

\* C14: a second media hotkey was registered while the interceptor, installed
\* for the first, was delivering.
C14_Witness ==
    /\ Returned("t1", "register")
    /\ ret["t1"] = "Ok"
    /\ hk["t1"] = media_2
    /\ pre["t1"].media_hotkeys = {media_1}
    /\ is_some(pre["t1"].event_tap)
    /\ media_hotkeys = {media_1, media_2}
    /\ TapDelivers

\* No key has both a scan code and the media-key property, so register
\* (which asks for the scan code first) and unregister (which asks
\* is_media_key first) take the same branch for every key.
BranchesAgree ==
    \A c \in Codes : ~(is_some(key_to_scancode(c)) /\ is_media_key(c))

\* C15: no identifier is both in the Registry and the identifier of a member
\* of the Media Key Set: the Registry holds only keys with a scan code, none
\* of them a media key, each under its own identifier; the Media Key Set
\* holds only media keys, none with a scan code; and register and unregister
\* choose the same branch for every key.
C15_StandardAndMediaAreDisjoint ==
    /\ BranchesAgree
    /\ \A id \in DOMAIN hotkeys :
           /\ is_some(key_to_scancode(hotkeys[id].hotkey.key))
           /\ ~is_media_key(hotkeys[id].hotkey.key)
           /\ HotKeyId(hotkeys[id].hotkey) = id
    /\ \A m \in media_hotkeys :
           /\ is_media_key(m.key)
           /\ ~is_some(key_to_scancode(m.key))
    /\ DOMAIN hotkeys \cap {HotKeyId(m) : m \in media_hotkeys} = {}
    /\ \A t \in Threads :
           /\ pc[t] \in {"register_insert", "unregister_native"}
                  => is_some(key_to_scancode(hk[t].key))
           /\ pc[t] \in {"start_lock_event_tap", "stop_take_source"}
                  /\ op[t] # "drop"
                  => is_media_key(hk[t].key)

\* C15: two standard hotkeys and two media hotkeys are registered at once.
C15_Witness ==
    /\ Cardinality(DOMAIN hotkeys) = 2
    /\ media_hotkeys = {media_1, media_2}
    /\ \A t \in Threads : pc[t] = "idle"

\* Thread u is between the native call of its register or unregister and
\* the matching update of the Registry.
InUpdate(u) == pc[u] \in {"register_insert", "unregister_native"}

\* C16: while one call is between its native register or unregister call
\* and its Registry update for an identifier, no other thread makes the
\* native call or the Registry access of a register or unregister for the
\* same identifier.
C16_RegistryMutationsSerialized ==
    [][\A t, u \in Threads :
          (/\ t # u
           /\ InUpdate(u)
           /\ pc[t] \in {"register", "unregister"}
           /\ ~is_media_key(hk[t].key)
           /\ HotKeyId(hk[t]) = HotKeyId(hk[u]))
              => pc'[t] = pc[t]]_vars

\* The positions at which the next step of a thread is a native call on the
\* tap or its run-loop source.
NativeTapCallPositions ==
    {"start_create_tap", "start_create_source", "start_attach",
     "stop_remove_source", "stop_release_source", "stop_invalidate",
     "stop_release_tap"}

\* C17: no thread holds the lock of the Media Key Set while it makes a
\* native call that creates the tap, attaches or detaches the run-loop
\* source, or invalidates or releases the tap or the source.
C17_MediaLockFreeDuringNativeCalls ==
    \A t \in Threads :
        pc[t] \in NativeTapCallPositions => lock["media_hotkeys"] # t

\* The native steps of a deactivation, in the order of lines 247-252.
StopOrder ==
    << "CFRunLoopRemoveSource", "CFRelease(source)", "CFMachPortInvalidate",
       "CFRelease(tap)" >>

IsStopCall(fn) == \E i \in 1..Len(StopOrder) : StopOrder[i] = fn

\* The deactivation steps thread t has made in its current or last call.
StopCalls(t) == SelectSeq(NativeCalls(t), IsStopCall)

\* C18: the native steps of every deactivation, in unregister and in
\* teardown, are: detach the source, release the source, invalidate the tap,
\* release the tap, in this order and all four of them; and no native source
\* is alive without its tap, nor attached to the run loop once released.
C18_DeactivationOrder ==
    /\ \A t \in Threads :
           op[t] \in {"unregister", "drop"}
               => /\ Len(StopCalls(t)) <= Len(StopOrder)
                  /\ StopCalls(t) = SubSeq(StopOrder, 1, Len(StopCalls(t)))
                  /\ pc[t] = "idle" => Len(StopCalls(t)) \in {0, Len(StopOrder)}
                  /\ (pc[t] = "idle" /\ is_some(pre[t].event_tap)
                      /\ (media_hotkeys = {} \/ op[t] = "drop"))
                         => StopCalls(t) = StopOrder
    /\ \A src \in DOMAIN os_sources : os_sources[src].tap \in DOMAIN os_taps
    /\ os_runloop \subseteq DOMAIN os_sources

\* C18: unregister of the last media hotkey has deactivated an installed
\* interceptor, and nothing of it is left.
C18_Witness ==
    /\ Returned("t1", "unregister")
    /\ is_some(pre["t1"].event_tap)
    /\ StopCalls("t1") = StopOrder
    /\ os_taps = EmptyMap
    /\ os_sources = EmptyMap

\* C19: a register of a media hotkey that follows a register of the same
\* hotkey that failed with FailedToWatchMediaKeyEvent (the only way, for a
\* single caller, that the hotkey is in the Media Key Set with no tap
\* recorded) returns Ok with the tap installed, unless a native creation
\* call fails again.
C19_RetryAfterFailedActivation ==
    \A t \in Threads :
        (/\ Returned(t, "register")
         /\ is_media_key(hk[t].key)
         /\ hk[t] \in pre[t].media_hotkeys
         /\ pre[t].event_tap = None
         /\ pre[t].event_tap_source = None
         /\ NativeCallsSucceeded(t))
            => /\ ret[t] = "Ok"
               /\ is_some(event_tap)
               /\ TapDelivers

\* How many native calls of `fn` that succeeded thread t's last call made.
CallCount(t, fn) ==
    Cardinality({i \in 1..Len(native_log[t]) :
                    native_log[t][i].fn = fn /\ native_log[t][i].ok})

\* C20: for a single caller, a register or unregister call on a media hotkey
\* installs a native tap, creating exactly one, exactly when it takes the
\* Media Key Set from empty to non-empty, and tears the tap down, releasing
\* it once, exactly when it takes the set from non-empty to empty.
C20_TapFollowsSetTransitions ==
    \A t \in Threads :
        (/\ pc[t] = "idle"
         /\ op[t] \in {"register", "unregister"}
         /\ is_media_key(hk[t].key))
            => LET installed == pre[t].os_taps = EmptyMap /\ os_taps # EmptyMap
                   removed == pre[t].os_taps # EmptyMap /\ os_taps = EmptyMap
               IN  /\ installed
                       <=> (pre[t].media_hotkeys = {} /\ media_hotkeys # {})
                   /\ removed
                       <=> (pre[t].media_hotkeys # {} /\ media_hotkeys = {})
                   /\ installed => CallCount(t, "CGEventTapCreate") = 1
                   /\ removed => CallCount(t, "CFRelease(tap)") = 1
                   /\ (~installed /\ ~removed) => os_taps = pre[t].os_taps

\* The step is an invocation of a native callback: no caller moves, and
\* the callback record is that of the invocation.
CallbackRan == lastCb'.fn # "none" /\ UNCHANGED <<pc, batch>>

\* C21: an invocation of hotkey_handler or of media_key_event_callback
\* leaves the Registry, the Media Key Set, the event tap handle and the
\* run-loop source handle as they were, and an invocation of hotkey_handler
\* leaves every lock with the holder it had.
C21_CallbacksChangeNoManagerState ==
    [][CallbackRan =>
          /\ UNCHANGED <<hotkeys, media_hotkeys, event_tap, event_tap_source>>
          /\ lastCb'.fn = "hotkey_handler" => UNCHANGED lock]_vars

\* Both kinds of callback get to run on a manager that has state to change:
\* the tap callback has matched a hotkey of the Media Key Set while a
\* standard hotkey is registered.
C21_Witness ==
    /\ lastCb.fn = "media_key_event_callback"
    /\ lastCb.sent # << >>
    /\ media_hotkeys # {}
    /\ hotkeys # EmptyMap
    /\ is_some(event_tap)
    /\ is_some(event_tap_source)

\* A tap exists: the manager records one, or Carbon holds one alive.
TapInstalled == is_some(event_tap) \/ os_taps # EmptyMap

\* C22: whenever an event tap is installed, teardown in progress included,
\* the Media Key Set its callback was given is alive: the strong count of
\* its Arc is at least one.
C22_SetOutlivesTap == TapInstalled => strong_count >= 1

\* Teardown has reached the release of the tap, which is still installed.
C22_Witness ==
    /\ batch.op = "drop"
    /\ pc["t1"] = "stop_release_tap"
    /\ ptr["t1"] \in DOMAIN os_taps
    /\ strong_count >= 1

\* No call is in progress and the manager has not been dropped.
Quiescent == batch.op = "none" /\ \A t \in Threads : pc[t] = "idle"

\* C23: between calls of register and unregister, the identifiers of the
\* Registry are the identifiers with a live Carbon registration, and each
\* entry holds the reference of the live registration of its identifier.
C23_RegistryMatchesNativeRegistrations ==
    Quiescent =>
        /\ DOMAIN hotkeys = {os_hotkeys[r].id : r \in DOMAIN os_hotkeys}
        /\ \A i \in DOMAIN hotkeys :
              /\ hotkeys[i].ptr \in DOMAIN os_hotkeys
              /\ os_hotkeys[hotkeys[i].ptr].id = i

\* The positions at which a thread is about to pass the reference in its
\* local to a native call, by the kind of the reference.
HotKeyRefUses == {"unregister_native"}

TapRefUses ==
    {"start_create_source", "start_attach", "stop_invalidate", "stop_release_tap"}

SourceRefUses == {"stop_remove_source", "stop_release_source"}

\* C24: a reference a thread is about to pass to a native call (a hotkey
\* registration to UnregisterEventHotKey, a tap or a source to the Core
\* Foundation calls of start and stop) is the reference of a live object,
\* and no two threads are about to pass the same reference: no reference is
\* released twice or used after its release.
C24_HandlesLiveWhenPassed ==
    /\ \A t \in Threads :
          /\ pc[t] \in HotKeyRefUses => ptr[t] \in DOMAIN os_hotkeys
          /\ pc[t] \in TapRefUses => ptr[t] \in DOMAIN os_taps
          /\ pc[t] \in SourceRefUses => ptr[t] \in DOMAIN os_sources
          /\ pc[t] = "start_attach" =>
                /\ is_some(event_tap_source)
                /\ unwrap(event_tap_source) \in DOMAIN os_sources
    /\ \A t, u \in Threads :
          (t # u /\ \E uses \in {HotKeyRefUses, TapRefUses, SourceRefUses} :
                        pc[t] \in uses /\ pc[u] \in uses)
             => ptr[t] # ptr[u]

\* Teardown is about to release the tap after a tap had been released
\* before: the strong count shows an earlier activation.
C24_Witness ==
    /\ batch.op = "drop"
    /\ pc["t1"] = "stop_release_tap"
    /\ ptr["t1"] \in DOMAIN os_taps
    /\ strong_count = 3
    /\ Len(batch.trace) >= 1

\* C26: when no tap is recorded or alive and no register of a media hotkey
\* is in progress, the manager's own reference is the only strong reference
\* to the Media Key Set: activations, failed ones included, and
\* deactivations leave no reference behind.
C26_TapReferencesBalanced ==
    (/\ batch.op = "none"
     /\ ~TapInstalled
     /\ Activating = {})
        => strong_count = 1

====
